---- MODULE Spec2Model ----
(***************************************************************************)
(* ggg-cpuid: the ia32 CPUID dumper (src/ia32/ggg-cpuid.c).                *)
(*                                                                         *)
(* A uint32_t is modelled bit-exactly as a pair <<hi, lo>> of 16-bit       *)
(* halves (TLC's integers are 32-bit signed, so 0x80000000 and 0xffffffff  *)
(* cannot be integer literals).  An int is the same bit pattern read as    *)
(* two's complement: the conversions int <-> uint32_t of the source are    *)
(* the identity on bit patterns (gcc's implementation-defined modulo       *)
(* conversion).                                                            *)
(***************************************************************************)
EXTENDS Integers, Sequences, FiniteSets, TLC

\* ------------------------------------------------------------ 32-bit words

\* The number of values of one 16-bit half of a uint32_t.
Half == 2^16

\* The uint32_t with halves hi and lo: hi * 2^16 + lo.
U(hi, lo) == <<hi, lo>>

\* uint32_t 0.
U0 == U(0, 0)

\* (uint32_t)-1 = 0xffffffff: main's "unset" marker, and the value the -1 of
\* cpuid_leaf's loop guard converts to.
UMAX == U(Half - 1, Half - 1)

\* INT_MAX = 0x7fffffff and INT_MIN = 0x80000000 as bit patterns.
INT_MAX == U(Half \div 2 - 1, Half - 1)

INT_MIN == U(Half \div 2, 0)

\* Unsigned comparisons of two uint32_t.
U32Lt(a, b) == a[1] < b[1] \/ (a[1] = b[1] /\ a[2] < b[2])

U32Le(a, b) == a = b \/ U32Lt(a, b)

U32Gt(a, b) == U32Lt(b, a)

\* ++x on a uint32_t: wraps modulo 2^32.
U32Inc(a) ==
  IF a[2] = Half - 1 THEN U((a[1] + 1) % Half, 0) ELSE U(a[1], a[2] + 1)

\* x & ~0xff: ~0xff is the int -256, converted to 0xffffff00.
AndNotFF(w) == U(w[1], w[2] - (w[2] % 256))

\* x & 0xff00U.
AndFF00(w) == U(0, w[2] - (w[2] % 256))

\* ------------------------------------------------------------ cpuid_result

cpuid_result(a, b, c, d) == [eax |-> a, ebx |-> b, ecx |-> c, edx |-> d]

\* cpuid_result last_subleaf = {0};
ZeroResult == cpuid_result(U0, U0, U0, U0)

\* ------------------------------------------------------------ leaves

\* The case labels of cpuid_leaf's switch.
LEAF_7 == U(0, 7)

LEAF_B == U(0, 11)

LEAF_14 == U(0, 20)

LEAF_1F == U(0, 31)

\* A leaf the switch has no case for.
LEAF_5 == U(0, 5)

\* dump_cpuid with its first call repeated in place of the second.
LevelBasesRepeated == <<U0, U0>>

\* The two levels dump_cpuid walks, in its order.
LevelBases == <<U0, INT_MIN>>

\* ------------------------------------------------------------ strtol

\* The hexadecimal digits strtol(., ., 16) accepts, by value.
HexChars == <<"0", "1", "2", "3", "4", "5", "6", "7",
              "8", "9", "a", "b", "c", "d", "e", "f">>

IsHex(c) == \E i \in 1..16 : HexChars[i] = c

HexVal(c) == (CHOOSE i \in 1..16 : HexChars[i] = c) - 1

\* The number of hexadecimal digits of text from index from on.
RECURSIVE DigitRun(_, _)
DigitRun(text, from) ==
  IF from <= Len(text) /\ IsHex(text[from])
    THEN 1 + DigitRun(text, from + 1)
    ELSE 0

\* A digit sequence without its leading zeros.
RECURSIVE StripZeros(_)
StripZeros(ds) ==
  IF ds # <<>> /\ ds[1] = 0 THEN StripZeros(Tail(ds)) ELSE ds

\* The value of at most four hexadecimal digits.
RECURSIVE HexNum(_)
HexNum(ds) ==
  IF ds = <<>> THEN 0 ELSE 16 * HexNum(SubSeq(ds, 1, Len(ds) - 1)) + ds[Len(ds)]

\* The low 32 bits of the number a digit sequence denotes.
Low32(ds) ==
  LET n == Len(ds)
      lo == SubSeq(ds, IF n > 4 THEN n - 3 ELSE 1, n)
      hi == IF n > 4 THEN SubSeq(ds, IF n > 8 THEN n - 7 ELSE 1, n - 4) ELSE <<>>
  IN  U(HexNum(hi), HexNum(lo))

\* The low 32 bits of -x, two's complement.
Neg32(u) == U32Inc(U(Half - 1 - u[1], Half - 1 - u[2]))

\* Whether the magnitude ds, negated when neg, is outside a long of the
\* build's width (bits = 32 on ILP32, 64 on LP64).
OutOfLong(ds, neg, bits) ==
  LET sig == StripZeros(ds)
      n == bits \div 4
  IN  \/ Len(sig) > n
      \/ /\ Len(sig) = n
         /\ IF neg
              THEN sig[1] > 8 \/ (sig[1] = 8 /\ \E i \in 2..n : sig[i] # 0)
              ELSE sig[1] >= 8

\* strtol(optarg, &endptr, 16) followed by the assignment to a uint32_t:
\* val is the returned long converted to uint32_t, endptr the index of the
\* first character not consumed (1 is optarg itself), errno what the call
\* left in errno, isMax / isMin whether the uint32_t compares equal to
\* LONG_MAX / LONG_MIN (never on LP64, where the uint32_t is widened to long;
\* on ILP32 both sides become unsigned long).
strtol(text, bits) ==
  LET neg == text # <<>> /\ text[1] = "-"
      s0 == IF text # <<>> /\ text[1] \in {"-", "+"} THEN 2 ELSE 1
      pre == /\ s0 + 2 <= Len(text)
             /\ text[s0] = "0"
             /\ text[s0 + 1] = "x"
             /\ IsHex(text[s0 + 2])
      s1 == IF pre THEN s0 + 2 ELSE s0
      n == DigitRun(text, s1)
      ds == [i \in 1..n |-> HexVal(text[s1 + i - 1])]
      over == n > 0 /\ OutOfLong(ds, neg, bits)
      val == IF n = 0 THEN U0
             ELSE IF over
               THEN IF neg
                      THEN (IF bits = 64 THEN U0 ELSE INT_MIN)
                      ELSE (IF bits = 64 THEN UMAX ELSE INT_MAX)
             ELSE IF neg THEN Neg32(Low32(ds)) ELSE Low32(ds)
  IN  [val |-> val,
       endptr |-> IF n = 0 THEN 1 ELSE s1 + n,
       errno |-> IF over THEN "ERANGE" ELSE "0",
       isMax |-> bits = 32 /\ val = INT_MAX,
       isMin |-> bits = 32 /\ val = INT_MIN]

\* The error test main makes after strtol (lines 159-160 and 177-178).
StrtolFailed(r) ==
  \/ r.errno = "ERANGE" /\ (r.isMax \/ r.isMin)
  \/ r.errno # "0" /\ r.val = U0

\* ------------------------------------------------------------ bounds and inputs

\* The longest scripted sequence of subleaf results of the stubbed CPU.
MaxScript == 3

\* The most calls of cpuid_leaf followed from a state inside cpuid_level's loop.
MaxTailCalls == 6

\* The results the stubbed CPU answers with.
SampleResults ==
  { ZeroResult,
    cpuid_result(U(0, 2), U(0, 1), U(0, 256), U(0, 5)),
    cpuid_result(U(0, 2), U(0, 1), U(0, 512), U(0, 5)),
    cpuid_result(U(0, 2), U0, U(1, 2), U0),
    cpuid_result(U0, U0, U(0, 2), U(0, 5)),
    cpuid_result(U0, U0, U(1, 2), U(0, 5)) }

\* Every sequence of at most n sample results.
Scripts(n) == UNION { [1..k -> SampleResults] : k \in 0..n }

\* The maximum leaf the CPU reports for the standard and the extended level.
StdMaxLeaves == { U0, U(0, 1) }

ExtMaxLeaves == { U(0, 3), U(Half \div 2, 1) }

\* A stubbed CPU: the answer to (leaf, subleaf) is script[subleaf + 1], all
\* zero past the script; subleaf 0 of a level base answers the level's
\* maximum leaf in eax.
CPUs ==
  [script : Scripts(MaxScript), std : StdMaxLeaves, ext : ExtMaxLeaves]

\* Command-line option texts, character by character.
LeafTexts ==
  { <<"0">>, <<"5">>, <<"7">>, <<"b">>, <<"1", "4">>, <<"1", "f">>,
    <<"8", "0", "0", "0", "0", "0", "0", "0">>,
    <<"f", "f", "f", "f", "f", "f", "f", "f">>,
    <<"1", "0", "0", "0", "0", "0", "0", "0", "7">>,
    <<"g">>, <<"7", "g">> }

SubleafTexts ==
  { <<"0">>, <<"2">>, <<"f", "f", "f", "f", "f", "f", "f", "f">>, <<"z">> }

ExplicitLeafTexts ==
  { <<"5">>, <<"7">>, <<"f", "f", "f", "f", "f", "f", "f", "f">> }

ExplicitSubleafTexts ==
  { <<"0">>, <<"2">>, <<"f", "f", "f", "f", "f", "f", "f", "f">> }

Opt(o, a) == [opt |-> o, arg |-> a]

\* The command lines: what getopt_long hands to main, option by option.
Argvs ==
  { <<>>, << Opt("h", <<>>) >>, << Opt("?", <<>>) >> }
    \cup { << Opt("l", t) >> : t \in LeafTexts }
    \cup { << Opt("s", t) >> : t \in SubleafTexts }
    \cup { << Opt("l", t), Opt("s", u) >> :
             t \in ExplicitLeafTexts, u \in ExplicitSubleafTexts }

\* The widths of long the program can be built with.
LongWidths == { 32, 64 }

\* ------------------------------------------------------------ state

VARIABLES
  cpu,           \* the stubbed CPU behind do_cpuid
  longBits,      \* the width of long of the build
  argv,          \* the options of the command line
  optind,        \* main: the next option getopt_long returns
  main_leaf,     \* main: leaf
  main_subleaf,  \* main: subleaf
  dump_pos,      \* dump_cpuid: which cpuid_level call is running
  level,         \* cpuid_level: level
  max_leaf,      \* cpuid_level: max_leaf
  level_leaf,    \* cpuid_level: the int leaf of the loop
  caller,        \* who called cpuid_leaf: "main" or "level"
  leaf,          \* cpuid_leaf: leaf
  subleaf,       \* cpuid_leaf: subleaf
  last_subleaf,  \* cpuid_leaf: last_subleaf
  pc,            \* where the program is
  status,        \* "running", or how the process ended
  mode,          \* which branch of main's lines 202-211 ran
  queries,       \* the selectors do_cpuid was called with, in order
  rows,          \* the rows print_subleaf printed, in order
  leafCalls,     \* the leaves cpuid_leaf was called with, in order
  is_open,       \* ggg-driver.c: the atomic_t is_open
  session,       \* ggg-driver.c: each struct file's open session
  last_read      \* ggg-driver.c: the latest device_read call and its effect

vars ==
  << cpu, longBits, argv, optind, main_leaf, main_subleaf, dump_pos, level,
     max_leaf, level_leaf, caller, leaf, subleaf, last_subleaf, pc, status,
     mode, queries, rows, leafCalls, is_open, session, last_read >>

\* The state of the ARM driver, a program of its own.
armVars == << is_open, session, last_read >>

mainVars == << argv, optind, main_leaf, main_subleaf >>

levelVars == << dump_pos, level, max_leaf, level_leaf >>

leafVars == << caller, leaf, subleaf, last_subleaf >>

\* ------------------------------------------------------------ the primitives

Selector(l, s) == [leaf |-> l, subleaf |-> s]

Row(l, s, r) == [leaf |-> l, subleaf |-> s, r |-> r]

\* do_cpuid(leaf, subleaf) on the stubbed CPU c.
CpuAnswer(c, l, s) ==
  LET base == IF s[1] = 0 /\ s[2] < Len(c.script)
                THEN c.script[s[2] + 1]
                ELSE ZeroResult
  IN  IF s = U0 /\ l = LevelBases[1] THEN [base EXCEPT !.eax = c.std]
      ELSE IF s = U0 /\ l = LevelBases[2] THEN [base EXCEPT !.eax = c.ext]
      ELSE base

do_cpuid(l, s) == CpuAnswer(cpu, l, s)

\* print_subleaf(leaf, subleaf, r): one more row on the output.
print_subleaf(l, s, r) == rows' = Append(rows, Row(l, s, r))

\* ------------------------------------------------------------ cpuid_leaf

\* The loop guard "subleaf > -1": subleaf is a uint32_t, so the int -1 is
\* converted to unsigned and the comparison is subleaf > 0xffffffff.
LoopGuard(s) == U32Gt(s, UMAX)

\* The switch of cpuid_leaf: whether it returns at subleaf s with result r,
\* last being last_subleaf.
StopRule(l, s, r, last) ==
  CASE l = LEAF_7 -> U32Gt(s, r.eax)
    [] l = LEAF_B -> r.eax = U0 /\ r.ebx = U0 /\ AndNotFF(r.ecx) = U0
    [] l = LEAF_14 -> U32Gt(s, r.eax)
    [] l = LEAF_1F -> AndFF00(r.ecx) = U0
    [] OTHER -> \/ (r.eax = U0 /\ r.ebx = U0 /\ r.ecx = U0 /\ r.edx = U0)
                \/ last = r

\* The call cpuid_leaf(l): its locals as lines 64 and 66 initialise them.
CallLeaf(l, from) ==
  /\ leaf' = l
  /\ subleaf' = U0
  /\ last_subleaf' = ZeroResult
  /\ caller' = from
  /\ leafCalls' = Append(leafCalls, l)
  /\ pc' = "leaf_loop"

\* cpuid_leaf returns: to main, which returns 0, or to cpuid_level's ++leaf.
ReturnFromLeaf ==
  IF caller = "main"
    THEN pc' = "done" /\ status' = "0"
    ELSE pc' = "level_incr" /\ status' = status

\* One test of the loop guard and, when it holds, one pass of the body.
cpuid_leaf_loop ==
  /\ pc = "leaf_loop"
  /\ IF LoopGuard(subleaf)
       THEN LET r == do_cpuid(leaf, subleaf)
            IN  /\ queries' = Append(queries, Selector(leaf, subleaf))
                /\ IF StopRule(leaf, subleaf, r, last_subleaf)
                     THEN /\ ReturnFromLeaf
                          /\ UNCHANGED << rows, subleaf, last_subleaf >>
                     ELSE /\ print_subleaf(leaf, subleaf, r)
                          /\ last_subleaf' = r
                          /\ subleaf' = U32Inc(subleaf)
                          /\ UNCHANGED << pc, status >>
       ELSE /\ ReturnFromLeaf
            /\ UNCHANGED << queries, rows, subleaf, last_subleaf >>
  /\ UNCHANGED << armVars, cpu, longBits, mainVars, levelVars, caller, leaf, mode,
                  leafCalls >>

\* ------------------------------------------------------------ cpuid_level

\* The entry of cpuid_level(level): the base query and the loop's init.
cpuid_level_entry ==
  /\ pc = "level_entry"
  /\ LET lv == LevelBases[dump_pos]
         r == do_cpuid(lv, U0)
     IN  /\ level' = lv
         /\ queries' = Append(queries, Selector(lv, U0))
         /\ max_leaf' = r.eax
         /\ level_leaf' = lv
  /\ pc' = "level_loop"
  /\ UNCHANGED << armVars, cpu, longBits, mainVars, dump_pos, leafVars, status, mode,
                  rows, leafCalls >>

\* The loop test "leaf <= max_leaf": the int leaf is converted to unsigned.
LevelGuard(i, m) == U32Le(i, m)

\* The loop test of cpuid_level and, when it holds, the call of cpuid_leaf;
\* when it fails cpuid_level returns to dump_cpuid, which calls the next
\* level or returns to main.
cpuid_level_loop ==
  /\ pc = "level_loop"
  /\ IF LevelGuard(level_leaf, max_leaf)
       THEN /\ Len(leafCalls) < MaxTailCalls
            /\ CallLeaf(level_leaf, "level")
            /\ UNCHANGED << dump_pos, status >>
       ELSE /\ IF dump_pos < Len(LevelBases)
                 THEN dump_pos' = dump_pos + 1 /\ pc' = "level_entry"
                      /\ status' = status
                 ELSE dump_pos' = dump_pos /\ pc' = "done" /\ status' = "0"
            /\ UNCHANGED << leafVars, leafCalls >>
  /\ UNCHANGED << armVars, cpu, longBits, mainVars, level, max_leaf, level_leaf, mode,
                  queries, rows >>

\* What ++leaf on the int leaf can do: the next value, or, at INT_MAX, where
\* the signed overflow is undefined, a wrap to INT_MIN or a trap.
IntIncOutcomes(i) ==
  IF i = INT_MAX
    THEN { [trap |-> FALSE, val |-> INT_MIN], [trap |-> TRUE, val |-> i] }
    ELSE { [trap |-> FALSE, val |-> U32Inc(i)] }

\* The ++leaf of cpuid_level's loop.
cpuid_level_incr ==
  /\ pc = "level_incr"
  /\ \E o \in IntIncOutcomes(level_leaf) :
       /\ level_leaf' = o.val
       /\ IF o.trap
            THEN pc' = "done" /\ status' = "trap"
            ELSE pc' = "level_loop" /\ status' = status
  /\ UNCHANGED << armVars, cpu, longBits, mainVars, dump_pos, level, max_leaf, leafVars,
                  mode, queries, rows, leafCalls >>

\* ------------------------------------------------------------ main

\* One pass of the getopt_long loop over the option argv[optind].
main_getopt ==
  /\ pc = "getopt"
  /\ optind <= Len(argv)
  /\ LET o == argv[optind]
         r == strtol(o.arg, longBits)
         bad == StrtolFailed(r) \/ r.endptr = 1
     IN  CASE o.opt = "l" ->
                /\ main_leaf' = r.val
                /\ main_subleaf' = main_subleaf
                /\ IF bad THEN pc' = "done" /\ status' = "1"
                          ELSE pc' = pc /\ status' = status
           [] o.opt = "s" ->
                /\ main_subleaf' = r.val
                /\ main_leaf' = main_leaf
                /\ IF bad THEN pc' = "done" /\ status' = "1"
                          ELSE pc' = pc /\ status' = status
           [] OTHER ->
                /\ pc' = "done" /\ status' = "0"
                /\ UNCHANGED << main_leaf, main_subleaf >>
  /\ optind' = optind + 1
  /\ UNCHANGED << armVars, cpu, longBits, argv, levelVars, leafVars, mode, queries,
                  rows, leafCalls >>

\* A choice that looks at the subleaf first.
ResolveModeSubleafFirst(l, s) ==
  IF s # UMAX
    THEN IF l # UMAX THEN "single" ELSE "leaf"
    ELSE IF l # UMAX THEN "leaf" ELSE "dump"

\* Lines 202-211: the leaf decides first, the subleaf is looked at only when
\* a leaf was given.
ResolveMode(l, s) ==
  IF l # UMAX
    THEN IF s # UMAX THEN "single" ELSE "leaf"
    ELSE "dump"

\* getopt_long returns -1: the header is printed and lines 202-211 choose
\* the single query, one leaf, or the full dump.
main_resolve ==
  /\ pc = "getopt"
  /\ optind > Len(argv)
  /\ IF ResolveMode(main_leaf, main_subleaf) # "dump"
       THEN IF ResolveMode(main_leaf, main_subleaf) = "single"
              THEN /\ mode' = "single"
                   /\ queries' = Append(queries, Selector(main_leaf, main_subleaf))
                   /\ print_subleaf(main_leaf, main_subleaf,
                                    do_cpuid(main_leaf, main_subleaf))
                   /\ pc' = "done" /\ status' = "0"
                   /\ UNCHANGED << dump_pos, leafVars, leafCalls >>
              ELSE /\ mode' = "leaf"
                   /\ CallLeaf(main_leaf, "main")
                   /\ UNCHANGED << dump_pos, status, queries, rows >>
       ELSE /\ mode' = "dump"
            /\ dump_pos' = 1
            /\ pc' = "level_entry"
            /\ UNCHANGED << leafVars, status, queries, rows, leafCalls >>
  /\ UNCHANGED << armVars, cpu, longBits, mainVars, level, max_leaf, level_leaf >>

\* ------------------------------------------------------------ ggg-driver.c

\* The state of the ia32 program, which the ARM driver never touches.
ia32Vars ==
  << cpu, longBits, mainVars, levelVars, leafVars, pc, status, mode,
     queries, rows, leafCalls >>

\* The struct files that processes open on the device.
NumFiles == 2
Files == 1..NumFiles

\* The lengths a read asks for: up to MaxWords whole words, and each of
\* these with three bytes over.
MaxWords == 20
ReadLengths == { 4 * w + over : w \in 0..MaxWords, over \in {0, 3} }

\* The registers device_read knows: its switch has cases 18 down to 1.
NumRegs == 18

\* atomic_add(a, v), which adds whatever the value is.
atomic_add(v, a, u) == [val |-> v + a, ret |-> 1]

\* atomic_add_unless(v, a, u): one indivisible step that adds a to v unless
\* v is u, and returns non-zero exactly when it added.
atomic_add_unless(v, a, u) ==
  IF v # u THEN [val |-> v + a, ret |-> 1] ELSE [val |-> v, ret |-> 0]

\* atomic_dec(v).
atomic_dec(v) == v - 1

\* open() on file f: session[f] is "open" after a return of 0 and "EBUSY"
\* after a return of -EBUSY.
device_open(f) ==
  /\ session[f] # "open"
  /\ LET r == atomic_add_unless(is_open, 1, 1)
     IN  /\ is_open' = r.val
         /\ session' = [session EXCEPT
                          ![f] = IF r.ret = 0 THEN "EBUSY" ELSE "open"]
  /\ UNCHANGED << ia32Vars, last_read >>

\* The kernel calls release only on a file whose open returned 0.
device_release(f) ==
  /\ session[f] = "open"
  /\ is_open' = atomic_dec(is_open)
  /\ session' = [session EXCEPT ![f] = "closed"]
  /\ UNCHANGED << ia32Vars, last_read >>

\* put_word(cpuid_val, buffer) stores the four bytes of the word at offsets
\* buffer .. buffer + 3, low byte first, each with put_user, and stops at
\* the first byte that faults. Only the first `valid` bytes of the user's
\* buffer can be stored to. A stored byte is <<word, byte number>>.
put_word(cpuid_val, buffer, valid) ==
  LET stored == { i \in 0..3 : \A j \in 0..i : buffer + j < valid }
  IN  [ fault |-> stored # 0..3,
        bytes |-> [ o \in { buffer + i : i \in stored } |->
                      << cpuid_val, o - buffer >> ] ]

\* The label the switch (count) jumps to: default shares case 18's.
SwitchEntry(count) == IF count > NumRegs THEN NumRegs ELSE count

\* The switch from case n on: case n puts register number n - 1 at
\* buffer + (n - 1) * 4 and falls through to case n - 1, down to case 0.
RECURSIVE ReadCases(_, _, _)
ReadCases(n, valid, buf) ==
  IF n = 0
    THEN [fault |-> FALSE, buf |-> buf]
    ELSE LET w == put_word(n - 1, (n - 1) * 4, valid)
         IN  IF w.fault
               THEN [fault |-> TRUE, buf |-> w.bytes @@ buf]
               ELSE ReadCases(n - 1, valid, w.bytes @@ buf)

\* No byte stored.
NoBytes == [ o \in {} |-> << 0, 0 >> ]

\* The user buffers a read is given: one that can be stored to throughout,
\* and one of which only the first half of the requested length can.
Accessible(length) == { NumRegs * 4, length \div 2 }

\* read(f, buffer, length) on the open file f. last_read keeps the call, the
\* bytes it stored, whether it returned -EFAULT, and otherwise its return
\* value count * 4.
device_read(f, length, valid) ==
  /\ session[f] = "open"
  /\ LET count == length \div 4
         r == ReadCases(SwitchEntry(count), valid, NoBytes)
     IN  last_read' = [ file |-> f, length |-> length, fault |-> r.fault,
                        ret |-> IF r.fault THEN 0 ELSE count * 4,
                        buf |-> r.buf ]
  /\ UNCHANGED << ia32Vars, is_open, session >>

\* The driver as module_init leaves it: is_open is ATOMIC_INIT(0).
DriverInit ==
  /\ is_open = 0
  /\ session = [f \in Files |-> "closed"]
  /\ last_read = [ file |-> 0, length |-> 0, fault |-> FALSE, ret |-> 0,
                   buf |-> NoBytes ]

\* ------------------------------------------------------------ the program

Init ==
  /\ cpu \in CPUs
  /\ longBits \in LongWidths
  /\ argv \in Argvs
  /\ optind = 1
  /\ main_leaf = UMAX
  /\ main_subleaf = UMAX
  /\ dump_pos = 1
  /\ level = U0
  /\ max_leaf = U0
  /\ level_leaf = U0
  /\ caller = "main"
  /\ leaf = U0
  /\ subleaf = U0
  /\ last_subleaf = ZeroResult
  /\ pc = "getopt"
  /\ status = "running"
  /\ mode = "none"
  /\ queries = <<>>
  /\ rows = <<>>
  /\ leafCalls = <<>>
  /\ DriverInit

Next ==
  \/ main_getopt
  \/ main_resolve
  \/ cpuid_level_entry
  \/ cpuid_level_loop
  \/ cpuid_level_incr
  \/ cpuid_leaf_loop

Spec == Init /\ [][Next]_vars

\* The driver alone: no ia32 run is in progress.
InitArm ==
  /\ cpu = [script |-> <<>>, std |-> U0, ext |-> U0]
  /\ longBits = 32
  /\ argv = <<>>
  /\ optind = 1
  /\ main_leaf = UMAX
  /\ main_subleaf = UMAX
  /\ dump_pos = 1
  /\ level = U0
  /\ max_leaf = U0
  /\ level_leaf = U0
  /\ caller = "main"
  /\ leaf = U0
  /\ subleaf = U0
  /\ last_subleaf = ZeroResult
  /\ pc = "done"
  /\ status = "0"
  /\ mode = "none"
  /\ queries = <<>>
  /\ rows = <<>>
  /\ leafCalls = <<>>
  /\ DriverInit

NextArm ==
  \/ \E f \in Files : device_open(f)
  \/ \E f \in Files : device_release(f)
  \/ \E f \in Files, length \in ReadLengths :
       \E valid \in Accessible(length) : device_read(f, length, valid)

SpecArm == InitArm /\ [][NextArm]_vars

\* ------------------------------------------------------------ reading a run

\* The run has ended normally after main called cpuid_leaf(l) alone.
LeafRunDone(l) ==
  pc = "done" /\ status = "0" /\ mode = "leaf" /\ main_leaf = l

\* The result the CPU gives for subleaf number k of leaf l.
Answer(l, k) == do_cpuid(l, U(0, k))

AllZero(r) == r = ZeroResult

\* The rows for subleaves 0..n-1 of leaf l, in increasing order, each with
\* the result the CPU gives for it.
RowsUpTo(l, n) == [i \in 1..n |-> Row(l, U(0, i - 1), Answer(l, i - 1))]

\* Bits 8-15 of a word.
Bits8to15(w) == (w[2] \div 256) % 256

\* The leaves cpuid_leaf's switch has a case for.
TableLeaves == { LEAF_7, LEAF_B, LEAF_14, LEAF_1F }

\* The stop condition the predicate table gives for leaf l at subleaf number
\* k with result r.
TableStop(l, k, r) ==
  CASE l \in { LEAF_7, LEAF_14 } -> U32Gt(U(0, k), r.eax)
    [] l = LEAF_B -> r.eax = U0 /\ r.ebx = U0 /\ r.ecx[1] = 0 /\ Bits8to15(r.ecx) = 0
    [] l = LEAF_1F -> Bits8to15(r.ecx) = 0

\* The first subleaf number at which stop holds (the CPU answers all zero past
\* its script, which stops every leaf by MaxScript + 1).
FirstStop(stop(_)) ==
  CHOOSE k \in 0..(MaxScript + 1) : stop(k) /\ \A j \in 0..(k - 1) : ~stop(j)

\* ------------------------------------------------------------ C1

\* C1: for each leaf of the predicate table (0x7, 0xB, 0x14, 0x1F) and every
\* scripted CPU, cpuid_leaf stops at the first subleaf s whose result
\* satisfies the leaf's stop condition, and the rows it printed are exactly
\* the subleaves 0..s-1, each once, in increasing order, with the results
\* queried.
C1_TableLeafStopsAtFirstStop ==
  \A l \in TableLeaves :
    LeafRunDone(l) =>
      LET stop(k) == TableStop(l, k, Answer(l, k))
          s == FirstStop(stop)
      IN  rows = RowsUpTo(l, s)

\* ------------------------------------------------------------ C2

\* Subleaf k of leaf l is the first the default rule stops at: no earlier
\* result is all zero or repeats its predecessor.
NoDefaultStopBefore(l, k) ==
  \A j \in 0..(k - 1) :
    /\ ~AllZero(Answer(l, j))
    /\ j > 0 => Answer(l, j) # Answer(l, j - 1)

\* C2: for a leaf outside the predicate table and every scripted CPU whose
\* subleaf k answers four zero words, cpuid_leaf prints no row for subleaf k
\* or any later one, and prints the rows of subleaves 0..k-1 with their
\* queried results unchanged.
C2_DefaultRuleAllZero ==
  \A k \in 0..MaxScript :
    ( /\ LeafRunDone(main_leaf)
      /\ main_leaf \notin TableLeaves
      /\ AllZero(Answer(main_leaf, k))
      /\ NoDefaultStopBefore(main_leaf, k) )
    => /\ \A i \in 1..Len(rows) : U32Lt(rows[i].subleaf, U(0, k))
       /\ \A j \in 0..(k - 1) :
            \E i \in 1..Len(rows) :
              rows[i] = Row(main_leaf, U(0, j), Answer(main_leaf, j))

\* ------------------------------------------------------------ C3

\* C3: for a default-rule leaf and every scripted CPU whose result at subleaf
\* k >= 1 equals the result at subleaf k-1 in all four words (k being the
\* first subleaf the default rule stops at), cpuid_leaf stops at k: it prints
\* no row for k, issues no query for a subleaf above k, and has printed the
\* row of k-1.
C3_DefaultRuleRepeat ==
  \A k \in 1..(MaxScript - 1) :
    ( /\ LeafRunDone(main_leaf)
      /\ main_leaf \notin TableLeaves
      /\ Answer(main_leaf, k) = Answer(main_leaf, k - 1)
      /\ ~AllZero(Answer(main_leaf, k))
      /\ NoDefaultStopBefore(main_leaf, k) )
    => /\ \A i \in 1..Len(rows) : rows[i].subleaf # U(0, k)
       /\ \A i \in 1..Len(queries) : U32Le(queries[i].subleaf, U(0, k))
       /\ \E i \in 1..Len(rows) :
            rows[i] = Row(main_leaf, U(0, k - 1), Answer(main_leaf, k - 1))

\* ------------------------------------------------------------ C4

\* C4: for leaf 0x7, when subleaf 0 answers word0 = N and subleaves 0..N
\* answer nonzero, pairwise different results, cpuid_leaf prints exactly the
\* N+1 rows of subleaves 0..N and never queries subleaf N+1.
C4_Leaf7CountedSubleaves ==
  LET w == Answer(LEAF_7, 0).eax
      N == w[2]
  IN  ( /\ LeafRunDone(LEAF_7)
        /\ w[1] = 0 /\ N < MaxScript
        /\ \A j \in 0..N : ~AllZero(Answer(LEAF_7, j))
        /\ \A i, j \in 0..N : i # j => Answer(LEAF_7, i) # Answer(LEAF_7, j) )
      => /\ rows = RowsUpTo(LEAF_7, N + 1)
         /\ \A i \in 1..Len(queries) : queries[i].subleaf # U(0, N + 1)

\* ------------------------------------------------------------ C5

\* The stop condition C5 states for leaf 0xB: word0 = 0, word1 = 0 and
\* (word2 & 0xFF00) = 0, whatever the other bits of word2 and word3.
LeafBStop(r) == r.eax = U0 /\ r.ebx = U0 /\ Bits8to15(r.ecx) = 0

\* C5: for leaf 0xB, cpuid_leaf stops at the first subleaf whose result has
\* word0 = 0, word1 = 0 and (word2 & 0xFF00) = 0 and prints exactly the
\* subleaves before it (with word2 = 0x0100 at subleaf 0, 0x0200 at subleaf 1
\* and an invalid subleaf 2: the rows of subleaves 0 and 1).
C5_LeafBStopsAtInvalidLevelType ==
  LeafRunDone(LEAF_B) =>
    LET stop(k) == LeafBStop(Answer(LEAF_B, k))
    IN  rows = RowsUpTo(LEAF_B, FirstStop(stop))

\* ------------------------------------------------------------ C6

\* x - d on a uint32_t, for d below 2^16.
U32Minus(a, d) ==
  IF a[2] >= d THEN U(a[1], a[2] - d) ELSE U((a[1] + Half - 1) % Half, a[2] + Half - d)

\* How far before a boundary the runs of SpecLevelTail start.
TailWindow == 2

\* The maximum leaves of the CPUs of SpecLevelTail.
TailMaxLeaves == { U(0, 3), INT_MAX, U(Half \div 2, 1), UMAX }

\* The states of a full dump inside cpuid_level's loop, at its test, with the
\* loop counter within TailWindow of the level's maximum leaf or of INT_MAX.
\* cpuid_level reaches each of them from its entry by steps of ++leaf alone:
\* the counter has passed no leaf above max_leaf and has not yet overflowed.
\* leafCalls holds the calls of cpuid_leaf from this state on.
InitLevelTail ==
  /\ cpu \in [script : Scripts(1), std : TailMaxLeaves, ext : TailMaxLeaves]
  /\ longBits \in LongWidths
  /\ argv = <<>>
  /\ optind = 1
  /\ main_leaf = UMAX
  /\ main_subleaf = UMAX
  /\ dump_pos \in 1..Len(LevelBases)
  /\ dump_pos = 2 => U32Lt(cpu.std, INT_MAX)
  /\ level = LevelBases[dump_pos]
  /\ max_leaf = do_cpuid(level, U0).eax
  /\ \E d \in 0..TailWindow :
       level_leaf \in { U32Minus(max_leaf, d), U32Minus(INT_MAX, d),
                        U32Minus(UMAX, d) }
  /\ U32Lt(level, level_leaf)
  /\ U32Le(level_leaf, max_leaf)
  /\ dump_pos = 1 => U32Le(level_leaf, INT_MAX)
  /\ caller = "level"
  /\ leaf = U32Minus(level_leaf, 1)
  /\ subleaf = U0
  /\ last_subleaf = ZeroResult
  /\ pc = "level_loop"
  /\ status = "running"
  /\ mode = "dump"
  /\ queries = [i \in 1..dump_pos |-> Selector(LevelBases[i], U0)]
  /\ rows = <<>>
  /\ leafCalls = <<>>
  /\ DriverInit

NextLevelTail ==
  \/ cpuid_level_entry
  \/ cpuid_level_loop
  \/ cpuid_level_incr
  \/ cpuid_leaf_loop

SpecLevelTail == InitLevelTail /\ [][NextLevelTail]_vars

\* C6: cpuid_level never calls cpuid_leaf for a leaf greater than max_leaf,
\* the word0 of query(base, 0), nor for a leaf less than base.
C6_LevelBound ==
  (pc = "leaf_loop" /\ caller = "level") =>
    U32Le(level, leaf) /\ U32Le(leaf, max_leaf)

\* ------------------------------------------------------------ C7

\* The run has ended normally after main ran dump_cpuid.
DumpDone == pc = "done" /\ status = "0" /\ mode = "dump"

\* The default rule's stop condition at subleaf number k of leaf l.
DefaultStop(l, k) ==
  AllZero(Answer(l, k)) \/ (k > 0 /\ Answer(l, k) = Answer(l, k - 1))

\* The rows the subleaf rule of leaf l yields on its own.
LeafRows(l) ==
  LET stop(k) == IF l \in TableLeaves THEN TableStop(l, k, Answer(l, k))
                                      ELSE DefaultStop(l, k)
  IN  RowsUpTo(l, FirstStop(stop))

\* The leaves base..max in increasing order (base and max in one 2^16 block,
\* as every level of the stubbed CPUs is); none when max < base.
LevelLeaves(base, max) ==
  IF U32Le(base, max) /\ base[1] = max[1]
    THEN [i \in 1..(max[2] - base[2] + 1) |-> U(base[1], base[2] + i - 1)]
    ELSE <<>>

\* The rows of the leaves ls, leaf after leaf.
RECURSIVE RowsOfLeaves(_)
RowsOfLeaves(ls) ==
  IF ls = <<>> THEN <<>> ELSE LeafRows(ls[1]) \o RowsOfLeaves(Tail(ls))

\* C7: in a full dump every row of the standard level comes before every row
\* of the extended level, leaves within a level appear in increasing order,
\* only leaves in [base, max_leaf] of their level appear, and each leaf's own
\* subleaf rule decides its rows: with max_leaf = 1 for the standard level
\* and 0x80000001 for the extended one the rows are those of leaves 0, 1,
\* 0x80000000, 0x80000001, in that order.
C7_DumpRowsInLevelOrder ==
  DumpDone =>
    rows = RowsOfLeaves(LevelLeaves(LevelBases[1], cpu.std))
             \o RowsOfLeaves(LevelLeaves(LevelBases[2], cpu.ext))

\* ------------------------------------------------------------ C8, C9

\* The 32-bit value a text of one to eight hexadecimal digits denotes.
IsHexText(t) == Len(t) \in 1..8 /\ \A i \in 1..Len(t) : IsHex(t[i])

HexValue(t) == Low32([i \in 1..Len(t) |-> HexVal(t[i])])

\* C8: when both a leaf and a subleaf are given, whatever 32-bit values they
\* are, a run that ends normally has issued exactly one query,
\* query(leaf, subleaf), and printed exactly one row with its result, all
\* zero or not.
C8_ExplicitSelectorOneQueryOneRow ==
  ( /\ pc = "done" /\ status = "0"
    /\ Len(argv) = 2
    /\ argv[1].opt = "l" /\ IsHexText(argv[1].arg)
    /\ argv[2].opt = "s" /\ IsHexText(argv[2].arg) )
  => LET l == HexValue(argv[1].arg)
         sl == HexValue(argv[2].arg)
     IN  /\ queries = << Selector(l, sl) >>
         /\ rows = << Row(l, sl, do_cpuid(l, sl)) >>

\* C9: when a leaf is given and no subleaf, whatever 32-bit value the leaf
\* is, a run that ends normally has called cpuid_leaf for exactly that leaf,
\* with no level bound applied, and has issued no query for any other leaf.
C9_LeafOnlyRunsThatLeaf ==
  ( /\ pc = "done" /\ status = "0"
    /\ Len(argv) = 1
    /\ argv[1].opt = "l" /\ IsHexText(argv[1].arg) )
  => LET l == HexValue(argv[1].arg)
     IN  /\ leafCalls = << l >>
         /\ \A i \in 1..Len(queries) : queries[i].leaf = l

\* ------------------------------------------------------------ C10

\* No selector occurs twice among the queries.
NoSelectorTwice ==
  \A i, j \in 1..Len(queries) : queries[i] = queries[j] => i = j

\* The calls of cpuid_level that have made their base query.
LevelsQueried == IF pc = "level_entry" THEN dump_pos - 1 ELSE dump_pos

C11_EveryPassAdvancesOrEnds ==
  [][ pc = "level_incr" =>
        (pc' = "done" \/ U32Lt(level_leaf, level_leaf')) ]_vars

\* ------------------------------------------------------------ C12

\* An option of the command line gives a leaf or subleaf text that is not
\* wholly a base-16 number of 32 bits.
MalformedText ==
  \E i \in 1..Len(argv) :
    argv[i].opt \in {"l", "s"} /\ ~IsHexText(argv[i].arg)

\* C12: a run given malformed leaf or subleaf text issues no query and never
\* runs the enumerator, in no mode, and ends with exit status 1.
C12_MalformedTextRejected ==
  MalformedText =>
    /\ mode = "none"
    /\ queries = <<>>
    /\ leafCalls = <<>>
    /\ pc = "done" => status = "1"

\* ------------------------------------------------------------ C13

\* The files that hold an open session.
Holders == { f \in Files : session[f] = "open" }

\* is_open is 0 or 1 and counts the open sessions.
SingleSession ==
  /\ is_open \in {0, 1}
  /\ Cardinality(Holders) = is_open

\* What a device_open call on file f does: with a session open it returns
\* -EBUSY and leaves is_open alone, with none open (at the start, or after
\* the holder's release) it succeeds.
OpenOutcome ==
  \A f \in Files :
    (session[f] # "open" /\ session'[f] \in {"open", "EBUSY"}
       /\ session'[f] # session[f]) =>
      IF Holders # {}
        THEN session'[f] = "EBUSY" /\ is_open' = is_open
        ELSE session'[f] = "open" /\ is_open' = 1

\* C13: under every interleaving of device_open and device_release calls,
\* release being called only by the holder of a successful open, at most one
\* session is open, is_open stays 0 or 1, an open attempted while a session
\* exists returns -EBUSY and leaves is_open unchanged, and an open attempted
\* after the holder's release succeeds.
C13_SingleReader == []SingleSession /\ [][OpenOutcome]_vars

\* File g, whose read is on record, held the session and released it; file
\* f then opened the device and holds it, and g's next open was refused.
C13_Witness ==
  \E f, g \in Files :
    /\ session[f] = "open"
    /\ session[g] = "EBUSY"
    /\ last_read.file = g
    /\ is_open = 1

\* ------------------------------------------------------------ C14

\* C14: a call of cpuid_leaf enters its loop at subleaf 0: when the run of
\* one leaf has ended, query(leaf, 0) was issued first, the queries that
\* followed were for subleaves 1, 2, ... in turn, and for a default-rule leaf
\* whose subleaf-0 result is not all-zero the first row is that of subleaf 0.
C14_LeafStartsAtSubleafZero ==
  LeafRunDone(main_leaf) =>
    /\ queries # <<>>
    /\ \A i \in 1..Len(queries) :
         queries[i] = Selector(main_leaf, U(0, i - 1))
    /\ (main_leaf \notin TableLeaves /\ ~AllZero(Answer(main_leaf, 0))) =>
         /\ rows # <<>>
         /\ rows[1] = Row(main_leaf, U0, Answer(main_leaf, 0))

\* ------------------------------------------------------------ C15

\* C15: cpuid_leaf starts each leaf with no previous result: in a full dump,
\* a default-rule leaf whose subleaf-0 result is not all-zero and equals the
\* result of the last row of the leaf called just before it still has its
\* subleaf-0 row in the output.
C15_PreviousResultResetPerLeaf ==
  DumpDone =>
    \A i \in 1..(Len(leafCalls) - 1) :
      LET prev == LeafRows(leafCalls[i])
          cur == leafCalls[i + 1]
          r0 == Answer(cur, 0)
      IN  ( /\ cur \notin TableLeaves
            /\ ~AllZero(r0)
            /\ prev # <<>>
            /\ prev[Len(prev)].r = r0 ) =>
            \E j \in 1..Len(rows) : rows[j] = Row(cur, U0, r0)

\* ------------------------------------------------------------ C16

\* C16: cpuid_level's loop never overflows or wraps its signed counter (it
\* is never incremented at INT_MAX, and no run is cut short by the overflow)
\* and calls cpuid_leaf for the leaves in strictly increasing unsigned
\* order, each once.
C16_LevelLoopNoWrap ==
  /\ status # "trap"
  /\ pc = "level_incr" => level_leaf # INT_MAX
  /\ \A i, j \in 1..Len(leafCalls) :
       i < j => U32Lt(leafCalls[i], leafCalls[j])

\* ------------------------------------------------------------ C17

\* What a run has queried and printed so far.
NoOutput == [queries |-> <<>>, rows |-> <<>>]

\* cpuid_leaf(l) from subleaf s on, with the previous result last, carried
\* out in one go: what it adds to the output out.
RECURSIVE LeafRun(_, _, _, _)
LeafRun(l, s, last, out) ==
  IF ~LoopGuard(s)
    THEN out
    ELSE LET r == do_cpuid(l, s)
             asked == [out EXCEPT !.queries = Append(@, Selector(l, s))]
         IN  IF StopRule(l, s, r, last)
               THEN asked
               ELSE LeafRun(l, U32Inc(s), r,
                            [asked EXCEPT !.rows = Append(@, Row(l, s, r))])

\* cpuid_level's loop from leaf i on, carried out in one go (the levels of
\* the stubbed CPUs end well before the counter's limits).
RECURSIVE LevelRun(_, _, _)
LevelRun(i, max, out) ==
  IF ~LevelGuard(i, max)
    THEN out
    ELSE LevelRun(U32Inc(i), max, LeafRun(i, U0, ZeroResult, out))

\* dump_cpuid from level number n on.
RECURSIVE DumpFrom(_, _)
DumpFrom(n, out) ==
  IF n > Len(LevelBases)
    THEN out
    ELSE LET base == LevelBases[n]
             asked == [out EXCEPT !.queries = Append(@, Selector(base, U0))]
         IN  DumpFrom(n + 1, LevelRun(base, do_cpuid(base, U0).eax, asked))

\* The output of the full dump on this CPU: it depends on the CPU alone.
DumpRun == DumpFrom(1, NoOutput)

\* The command line gives a subleaf and no leaf.
SubleafOnly == Len(argv) = 1 /\ argv[1].opt = "s"

C18_ReadReturnsBytesWritten ==
  (last_read.file \in Files /\ ~last_read.fault) =>
    LET words == IF last_read.length \div 4 < NumRegs
                   THEN last_read.length \div 4 ELSE NumRegs
        written == DOMAIN last_read.buf
    IN  /\ written = 0..(4 * words - 1)
        /\ \A o \in written : last_read.buf[o] = << o \div 4, o % 4 >>
        /\ \A o \in written : o < last_read.length
        /\ last_read.ret = Cardinality(written)
        /\ last_read.ret <= 4 * NumRegs
        /\ last_read.ret <= last_read.length

====
